---- MODULE Spec2Model ----
(***************************************************************************)
(* StyleSync (production_app.py): the StyleSyncBot wardrobe, its methods   *)
(* and the Streamlit script main() that drives them, one script run per    *)
(* user interaction.                                                       *)
(*                                                                         *)
(* Python text that the program inspects character by character (the       *)
(* decimal text of an id) is a sequence of one-character strings; text it  *)
(* only carries around (a category, a colour) is an atomic string.  JSON   *)
(* text is a sequence of tokens, each token a tuple of strings.            *)
(***************************************************************************)
EXTENDS Integers, Sequences, FiniteSets, TLC

\* ------------------------------------------------------------------ bounds
\* Largest wardrobe the model grows.
MaxItems == 3
\* Threads of the concurrent specification.
NumThreads == 2

\* ------------------------------------------------------- Python primitives
Range(s) == {s[i] : i \in 1..Len(s)}

DigitChars == <<"0", "1", "2", "3", "4", "5", "6", "7", "8", "9">>

\* str(n) for an int n: its decimal text.
RECURSIVE IntToStr(_)
IntToStr(n) ==
    IF n < 0 THEN <<"-">> \o IntToStr(0 - n)
    ELSE IF n < 10 THEN <<DigitChars[n + 1]>>
    ELSE IntToStr(n \div 10) \o <<DigitChars[(n % 10) + 1]>>

\* The int a JSON number token's digits denote.
RECURSIVE StrToInt(_)
StrToInt(s) ==
    IF s = <<>> THEN 0
    ELSE IF Head(s) = "-" THEN 0 - StrToInt(Tail(s))
    ELSE StrToInt(SubSeq(s, 1, Len(s) - 1)) * 10
         + (CHOOSE d \in 0..9 : DigitChars[d + 1] = s[Len(s)])

\* A Python value handed to get_item_by_id: an int or a str.
PyInt(n) == [kind |-> "int", n |-> n, s |-> <<>>]
PyText(s) == [kind |-> "str", n |-> 0, s |-> s]

\* str(x): the decimal text of an int, a str unchanged.
PyStr(x) == IF x.kind = "int" THEN IntToStr(x.n) ELSE x.s

\* Every ordering of a finite set: the orders iteration over a Python set
\* can produce.
OrdersOf(S) == {s \in [1..Cardinality(S) -> S] : Range(s) = S}

\* ------------------------------------------------------------ ClothingItem
ScalarFields == {"category", "description", "gender", "fabric", "pattern",
                 "fit", "sleeve_length", "neck_type"}
ListFields == {"color", "occasion", "season", "features"}

\* Field order of the pydantic model, the key order of model_dump_json.
FieldOrder == <<"category", "description", "color", "gender", "fabric",
                "pattern", "fit", "sleeve_length", "neck_type", "occasion",
                "season", "features">>

\* Validation of a structured reply into a ClothingItem: features becomes a
\* set, so duplicates collapse and the order is forgotten.
ClothingItem(raw) == [raw EXCEPT !.features = Range(raw.features)]

\* -------------------------------------------------------------------- JSON
Punct(c) == <<"p", c>>
StrTok(s) == <<"s", s>>
NumTok(n) == <<"n">> \o IntToStr(n)
\* Newline and indentation, emitted by json.dumps(indent=2) only.
Ws(indent) == IF indent THEN << <<"w">> >> ELSE <<>>

RECURSIVE DumpElems(_, _)
DumpElems(l, indent) ==
    IF l = <<>> THEN <<>>
    ELSE Ws(indent) \o <<StrTok(Head(l))>>
         \o (IF Len(l) > 1 THEN <<Punct(",")>> ELSE <<>>)
         \o DumpElems(Tail(l), indent)

\* A JSON array of strings.
DumpStrList(l, indent) ==
    IF l = <<>> THEN <<Punct("["), Punct("]")>>
    ELSE <<Punct("[")>> \o DumpElems(l, indent) \o Ws(indent) \o <<Punct("]")>>

DumpField(d, k, indent) ==
    IF k = "id" THEN <<NumTok(d[k])>>
    ELSE IF k \in ListFields THEN DumpStrList(d[k], indent)
    ELSE <<StrTok(d[k])>>

RECURSIVE DumpMembers(_, _, _)
DumpMembers(d, keys, indent) ==
    IF keys = <<>> THEN <<>>
    ELSE Ws(indent) \o <<StrTok(Head(keys)), Punct(":")>>
         \o DumpField(d, Head(keys), indent)
         \o (IF Len(keys) > 1 THEN <<Punct(",")>> ELSE <<>>)
         \o DumpMembers(d, Tail(keys), indent)

\* A JSON object with the members of d in the order of keys.
DumpObject(d, keys, indent) ==
    <<Punct("{")>> \o DumpMembers(d, keys, indent) \o Ws(indent) \o <<Punct("}")>>

\* clothing_item.model_dump_json(): compact JSON, the fields in model order,
\* the features set written as an array in the iteration order forder.
model_dump_json(item, forder) ==
    DumpObject([item EXCEPT !.features = forder], FieldOrder, FALSE)

\* Key order of a stored item_dict: the model's fields, then 'id'.
DictKeyOrder == FieldOrder \o <<"id">>

RECURSIVE DumpItems(_, _)
DumpItems(w, indent) ==
    IF w = <<>> THEN <<>>
    ELSE Ws(indent) \o DumpObject(Head(w), DictKeyOrder, indent)
         \o (IF Len(w) > 1 THEN <<Punct(",")>> ELSE <<>>)
         \o DumpItems(Tail(w), indent)

\* Mutant: the export of st.session_state.wardrobe_items, the list main()
\* creates and never fills, instead of bot.wardrobe.
json_dumps_WardrobeItems(w) == <<Punct("["), Punct("]")>>

\* json.dumps(wardrobe, indent=2).
json_dumps(w) ==
    IF w = <<>> THEN <<Punct("["), Punct("]")>>
    ELSE <<Punct("[")>> \o DumpItems(w, TRUE) \o Ws(TRUE) \o <<Punct("]")>>

\* json.loads: a recursive-descent parser over the tokens.  Each Parse
\* operator returns the value read and the index of the next token.
RECURSIVE SkipWs(_, _)
SkipWs(t, i) == IF i <= Len(t) /\ t[i] = <<"w">> THEN SkipWs(t, i + 1) ELSE i

RECURSIVE ParseValue(_, _)
RECURSIVE ParseArray(_, _, _)
RECURSIVE ParseObject(_, _, _)

ParseValue(t, i0) ==
    LET i == SkipWs(t, i0) IN
    IF t[i][1] = "s" THEN [v |-> t[i][2], n |-> i + 1]
    ELSE IF t[i][1] = "n" THEN [v |-> StrToInt(Tail(t[i])), n |-> i + 1]
    ELSE IF t[i] = Punct("[") THEN ParseArray(t, i + 1, <<>>)
    ELSE ParseObject(t, i + 1, <<>>)

ParseArray(t, i0, acc) ==
    LET i == SkipWs(t, i0) IN
    IF t[i] = Punct("]") THEN [v |-> acc, n |-> i + 1]
    ELSE IF t[i] = Punct(",") THEN ParseArray(t, i + 1, acc)
    ELSE LET e == ParseValue(t, i) IN ParseArray(t, e.n, Append(acc, e.v))

\* acc is the dict read so far, a function on its keys (<<>> when empty).
ParseObject(t, i0, acc) ==
    LET i == SkipWs(t, i0) IN
    IF t[i] = Punct("}") THEN [v |-> acc, n |-> i + 1]
    ELSE IF t[i] = Punct(",") THEN ParseObject(t, i + 1, acc)
    ELSE LET k == t[i][2]
             j == SkipWs(t, i + 1)
             e == ParseValue(t, j + 1)
         IN ParseObject(t, e.n, IF acc = <<>> THEN k :> e.v
                                ELSE [x \in (DOMAIN acc) \cup {k} |->
                                        IF x = k THEN e.v ELSE acc[x]])

json_loads(t) == ParseValue(t, 1).v


\* --------------------------------------------------------- Model Gateway
\* Structured replies the Model Gateway gives to an image analysis, before
\* validation: features is the JSON array the model wrote.
Reply(cat, col, occ, sea, feat) ==
    [category |-> cat, description |-> "described", color |-> col,
     gender |-> "Unisex", fabric |-> "Cotton", pattern |-> "Solid",
     fit |-> "Regular Fit", sleeve_length |-> "Short",
     neck_type |-> "Round", occasion |-> occ, season |-> sea,
     features |-> feat]

GatewayItemReplies ==
    {Reply("T-Shirt", <<"Blue">>, <<"Casual">>, <<"Summer">>, <<"Breathable">>),
     Reply("Pants", <<"Black", "Grey">>, <<"Work", "Casual">>, <<>>,
           <<"Pockets", "Stretch", "Pockets">>)}

\* Texts the Model Gateway uses as item ids in a recommendation: the ids of
\* the first two items and an id that no wardrobe of the model holds.
Id1 == IntToStr(1)
Id2 == IntToStr(2)
IdAbsent == IntToStr(MaxItems + 1)

\* recommended_items of the replies: none, one, several, ids that are
\* absent, a repeated id, and more ids than any cap asked for.
GatewayRecItems ==
    {<<>>, <<Id1>>, <<Id2, Id1>>, <<IdAbsent, Id1>>, <<Id2, IdAbsent>>,
     <<IdAbsent, IdAbsent>>, <<Id1, IdAbsent, Id2, Id1>>}

\* Structured replies of the Model Gateway to a recommendation request.
GatewayRecReplies ==
    [recommended_items : GatewayRecItems,
     reasoning : {"goes well together"},
     style_tips : {<<>>, <<"roll the sleeves", "add a belt">>}]

\* What the Gateway can do when invoked for a recommendation: raise, or
\* reply with one of the replies.
NoReply == <<>>
RecOutcomes(raised) == IF raised THEN {NoReply} ELSE GatewayRecReplies

\* ------------------------------------------------------------ StyleSyncBot
None == [kind |-> "None", val |-> <<>>]

\* Python truthiness of a value the program tests with `if`.
Truthy(v) ==
    /\ v.kind # "None"
    /\ (v.kind = "dict" => DOMAIN v.val # {})

\* Mutant: no try/except around the Gateway call, the exception leaves the
\* method.
analyze_clothing_image_NoCatch(raised, raw) ==
    IF raised
    THEN [ret |-> None, msgs |-> <<>>, escaped |-> TRUE]
    ELSE [ret |-> [kind |-> "ClothingItem", val |-> ClothingItem(raw)],
          msgs |-> <<>>, escaped |-> FALSE]

\* analyze_clothing_image: one call to structured_llm.invoke inside a
\* try/except Exception.  raised says that the Gateway raised.
analyze_clothing_image(raised, raw) ==
    IF raised
    THEN [ret |-> None, msgs |-> <<"Error analyzing image">>,
          escaped |-> FALSE]
    ELSE [ret |-> [kind |-> "ClothingItem", val |-> ClothingItem(raw)],
          msgs |-> <<>>, escaped |-> FALSE]

\* Mutant: the id taken as the length itself, without the + 1.
AddReadLen_ZeroBased(w, clothing_item, forder) ==
    LET item_dict == json_loads(model_dump_json(clothing_item, forder))
    IN [k \in (DOMAIN item_dict) \cup {"id"} |->
          IF k = "id" THEN Len(w) ELSE item_dict[k]]

\* Lines 81-82 of add_to_wardrobe: the item_dict built from the JSON dump,
\* its 'id' set from the length of the wardrobe read at that moment.
AddReadLen(w, clothing_item, forder) ==
    LET item_dict == json_loads(model_dump_json(clothing_item, forder))
    IN [k \in (DOMAIN item_dict) \cup {"id"} |->
          IF k = "id" THEN Len(w) + 1 ELSE item_dict[k]]

\* Lines 83-84 of add_to_wardrobe: the append and the returned id.
AddAppend(w, item_dict) ==
    [wardrobe |-> Append(w, item_dict), ret |-> item_dict["id"]]

\* add_to_wardrobe run without interruption.
add_to_wardrobe(w, clothing_item, forder) ==
    AddAppend(w, AddReadLen(w, clothing_item, forder))

\* Mutant: no early return for the empty wardrobe, the Gateway is asked.
get_outfit_recommendations_NoEmptyCheck(w, user_preferences, num_recommendations, raised, reply) ==
    IF raised
    THEN [ret |-> None, msgs |-> <<"Error getting recommendations">>,
          invoked |-> TRUE]
    ELSE [ret |-> [kind |-> "OutfitRecommendation", val |-> reply],
          msgs |-> <<>>, invoked |-> TRUE]

\* Mutant: the reply is cut to num_recommendations ids before it is
\* returned.
get_outfit_recommendations_Capped(w, user_preferences, num_recommendations, raised, reply) ==
    IF w = <<>>
    THEN [ret |-> None, msgs |-> <<>>, invoked |-> FALSE]
    ELSE IF raised
    THEN [ret |-> None, msgs |-> <<"Error getting recommendations">>,
          invoked |-> TRUE]
    ELSE [ret |-> [kind |-> "OutfitRecommendation",
                   val |-> [reply EXCEPT !.recommended_items =
                              SubSeq(@, 1, IF Len(@) < num_recommendations
                                           THEN Len(@) ELSE num_recommendations)]],
          msgs |-> <<>>, invoked |-> TRUE]

\* get_outfit_recommendations.  raised and reply are what the Model Gateway
\* does if it is invoked.
get_outfit_recommendations(w, user_preferences, num_recommendations, raised, reply) ==
    IF w = <<>>
    THEN [ret |-> None, msgs |-> <<>>, invoked |-> FALSE]
    ELSE IF raised
    THEN [ret |-> None, msgs |-> <<"Error getting recommendations">>,
          invoked |-> TRUE]
    ELSE [ret |-> [kind |-> "OutfitRecommendation", val |-> reply],
          msgs |-> <<>>, invoked |-> TRUE]

\* Mutant: item['id'] == item_id without str(), so that a text never
\* equals the int id.
RECURSIVE ScanWardrobe_NoStr(_, _, _)
ScanWardrobe_NoStr(w, i, item_id) ==
    IF i > Len(w) THEN None
    ELSE IF item_id.kind = "int" /\ w[i]["id"] = item_id.n
    THEN [kind |-> "dict", val |-> w[i]]
    ELSE ScanWardrobe_NoStr(w, i + 1, item_id)

\* The loop of get_item_by_id from position i on.
RECURSIVE ScanWardrobe(_, _, _)
ScanWardrobe(w, i, item_id) ==
    IF i > Len(w) THEN None
    ELSE IF IntToStr(w[i]["id"]) = PyStr(item_id)
    THEN [kind |-> "dict", val |-> w[i]]
    ELSE ScanWardrobe(w, i + 1, item_id)

get_item_by_id(w, item_id) == ScanWardrobe(w, 1, item_id)

\* Widgets written to the page: the kind, the id text an expander is about,
\* and the texts shown (a joined list is kept as the list of its parts).
Widget(kind, ref, body) == [widget |-> kind, ref |-> ref, body |-> body]
Write(text) == Widget("write", <<>>, << <<text>> >>)

Expander(item_id, item) ==
    Widget("expander", item_id,
           << <<item["category"]>>, item["color"], <<item["description"]>>,
              <<item["fabric"]>>, <<item["pattern"]>>, <<item["fit"]>>,
              item["occasion"], item["season"], item["features"] >>)

\* Mutant: the loop ends at the first id that is not found.
RECURSIVE RenderItems_StopAtMissing(_, _)
RenderItems_StopAtMissing(w, ids) ==
    IF ids = <<>> THEN <<>>
    ELSE LET item == get_item_by_id(w, PyText(Head(ids)))
         IN IF Truthy(item)
            THEN <<Expander(Head(ids), item.val)>>
                 \o RenderItems_StopAtMissing(w, Tail(ids))
            ELSE <<>>

\* The loop over recommendation.recommended_items.
RECURSIVE RenderItems(_, _)
RenderItems(w, ids) ==
    IF ids = <<>> THEN <<>>
    ELSE LET item == get_item_by_id(w, PyText(Head(ids)))
         IN (IF Truthy(item) THEN <<Expander(Head(ids), item.val)>> ELSE <<>>)
            \o RenderItems(w, Tail(ids))

RenderTips(tips) == [i \in 1..Len(tips) |-> Write(tips[i])]

display_outfit_recommendation(w, recommendation) ==
    <<Widget("subheader", <<>>, << <<"Recommended Outfit">> >>),
      Write("Outfit Items:")>>
    \o RenderItems(w, recommendation.recommended_items)
    \o <<Write("Why this outfit works:"), Write(recommendation.reasoning)>>
    \o (IF recommendation.style_tips # <<>>
        THEN <<Write("Styling Tips:")>> \o RenderTips(recommendation.style_tips)
        ELSE <<>>)


\* ------------------------------------------------------------------- state
VARIABLES
    apiKey,      \* api_key of the last script run ("" when none)
    uploaded,    \* the file uploader holds at least one image
    bot,         \* st.session_state.bot is a StyleSyncBot (FALSE: None)
    wardrobe,    \* bot.wardrobe, the list of item dicts
    lastOp,      \* the operation that ran last
    argId,       \* item_id of the last get_item_by_id call
    argNum,      \* num_recommendations of the last recommendation call
    gwInvoked,   \* the Model Gateway endpoint invoked by the last operation
    gwRaised,    \* the Model Gateway raised in the last operation
    gwReply,     \* the recommendation the Model Gateway replied with
    escaped,     \* an exception left the method called by the last operation
    ret,         \* value returned by the bot method of the last operation
    itemId,      \* item_id returned by add_to_wardrobe in the last run, or 0
    msgs,        \* status messages (success, error, warning, info) shown
    rendered,    \* widgets written by display_outfit_recommendation
    exported,    \* data of the download button
    addRets,     \* history: the ids returned by add_to_wardrobe, in call order
    added,       \* history: the ClothingItems passed to add_to_wardrobe
    tpc,         \* concurrent specification: where each thread stands
    tdict        \* concurrent specification: each thread's item_dict

vars == <<apiKey, uploaded, bot, wardrobe, lastOp, argId, argNum, gwInvoked,
          gwRaised, gwReply, escaped, ret, itemId, msgs, rendered, exported,
          addRets, added, tpc, tdict>>

Threads == 1..NumThreads

\* Default of num_recommendations.
DefaultNumRecommendations == 3

ApiKeys == {"", "key"}
Preferences == "Occasion: Casual Season: Summer"
NoId == PyInt(0)

\* Arguments tried on get_item_by_id: ints and texts, assigned ids and
\* unassigned ones, and a text with a leading zero.
LookupInputs ==
    {PyInt(k) : k \in 0..(MaxItems + 1)}
    \cup {PyText(IntToStr(k)) : k \in 0..(MaxItems + 1)}
    \cup {PyText(<<"0", "1">>)}

\* Session start: main() has set st.session_state.bot = None.
Init ==
    /\ apiKey = ""
    /\ uploaded = FALSE
    /\ bot = FALSE
    /\ wardrobe = <<>>
    /\ lastOp = "start"
    /\ argId = NoId
    /\ argNum = 0
    /\ gwInvoked = "none"
    /\ gwRaised = FALSE
    /\ gwReply = NoReply
    /\ escaped = FALSE
    /\ ret = None
    /\ itemId = 0
    /\ msgs = <<>>
    /\ rendered = <<>>
    /\ exported = <<>>
    /\ addRets = <<>>
    /\ added = <<>>
    /\ tpc = [t \in Threads |-> "idle"]
    /\ tdict = [t \in Threads |-> <<>>]

\* -------------------------------------------------------------- main()
\* Mutant: the bot constructed on every run that has a credential.
Sidebar_NoGuard(key, b, w, ctorOk) ==
    IF key # ""
    THEN IF ctorOk
         THEN [bot |-> TRUE, wardrobe |-> <<>>, msgs |-> <<"Bot initialized!">>]
         ELSE [bot |-> b, wardrobe |-> w, msgs |-> <<"Error initializing bot">>]
    ELSE [bot |-> b, wardrobe |-> w, msgs |-> <<>>]

\* The sidebar: the bot is constructed only while session_state.bot is None;
\* ctorOk says that StyleSyncBot(api_key) did not raise.  A new bot starts
\* with an empty wardrobe.
Sidebar(key, b, w, ctorOk) ==
    IF key # "" /\ ~b
    THEN IF ctorOk
         THEN [bot |-> TRUE, wardrobe |-> <<>>, msgs |-> <<"Bot initialized!">>]
         ELSE [bot |-> FALSE, wardrobe |-> w, msgs |-> <<"Error initializing bot">>]
    ELSE [bot |-> b, wardrobe |-> w, msgs |-> <<>>]

NeedKeyMsgs == <<"Please enter your Gemini API key", "You can get a free API key">>

\* Mutant: the recommendations tab without its emptiness check.
Tab2Empty_Never(b, w) == FALSE

\* The branch of the recommendations tab taken when there is nothing to
\* recommend from.
Tab2Empty(b, w) == ~b \/ w = <<>>
Tab2Msgs(b, w) ==
    IF Tab2Empty(b, w) THEN <<"Please add some clothing items first">> ELSE <<>>

\* The wardrobe tab lists the items or says that there are none.
Tab3Msgs(b, w) ==
    IF b /\ w # <<>> THEN <<>> ELSE <<"Your wardrobe is empty">>

\* A script run in which no button is pressed: the page is opened or
\* reloaded, the credential is typed, files are uploaded or removed.
Rerun(key, upl, ctorOk) ==
    LET SB == Sidebar(key, bot, wardrobe, ctorOk) IN
    /\ apiKey' = key
    /\ uploaded' = IF key = "" THEN FALSE ELSE upl
    /\ bot' = SB.bot
    /\ wardrobe' = SB.wardrobe
    /\ lastOp' = "rerun"
    /\ msgs' = SB.msgs \o
               (IF key = "" THEN NeedKeyMsgs
                ELSE Tab2Msgs(SB.bot, SB.wardrobe) \o Tab3Msgs(SB.bot, SB.wardrobe))
    /\ argId' = NoId /\ argNum' = 0
    /\ gwInvoked' = "none" /\ gwRaised' = FALSE /\ gwReply' = NoReply
    /\ escaped' = FALSE /\ ret' = None /\ itemId' = 0
    /\ rendered' = <<>> /\ exported' = <<>>
    /\ UNCHANGED <<addRets, added, tpc, tdict>>

\* The script run of a press on "Analyze <file>".
ClickAnalyze(raised, raw, forder) ==
    /\ apiKey # "" /\ bot /\ uploaded
    /\ raised \/ Len(wardrobe) < MaxItems
    /\ LET SB == Sidebar(apiKey, bot, wardrobe, TRUE)
           A == analyze_clothing_image(raised, raw)
           ok == ~A.escaped /\ Truthy(A.ret)
           ADD == add_to_wardrobe(SB.wardrobe, A.ret.val, forder)
           w2 == IF ok THEN ADD.wardrobe ELSE SB.wardrobe
       IN /\ bot' = SB.bot
          /\ wardrobe' = w2
          /\ lastOp' = "analyze"
          /\ gwInvoked' = "structured_llm"
          /\ gwRaised' = raised
          /\ escaped' = A.escaped
          /\ ret' = A.ret
          /\ itemId' = IF ok THEN ADD.ret ELSE 0
          /\ addRets' = IF ok THEN Append(addRets, ADD.ret) ELSE addRets
          /\ added' = IF ok THEN Append(added, A.ret.val) ELSE added
          /\ msgs' = SB.msgs \o A.msgs
                     \o (IF ok THEN <<"Added to wardrobe as Item">> ELSE <<>>)
                     \o (IF A.escaped THEN <<>>
                         ELSE Tab2Msgs(SB.bot, w2) \o Tab3Msgs(SB.bot, w2))
    /\ argId' = NoId /\ argNum' = 0 /\ gwReply' = NoReply
    /\ rendered' = <<>> /\ exported' = <<>>
    /\ UNCHANGED <<apiKey, uploaded, tpc, tdict>>

\* The script run of a press on "Get Recommendations"; the button exists
\* only when the recommendations tab found a non-empty wardrobe.
ClickRecommend(raised, reply) ==
    /\ apiKey # "" /\ bot
    /\ LET SB == Sidebar(apiKey, bot, wardrobe, TRUE)
           R == get_outfit_recommendations(SB.wardrobe, Preferences,
                    DefaultNumRecommendations, raised, reply)
       IN /\ ~Tab2Empty(SB.bot, SB.wardrobe)
          /\ bot' = SB.bot
          /\ wardrobe' = SB.wardrobe
          /\ lastOp' = "recommend"
          /\ argNum' = DefaultNumRecommendations
          /\ gwInvoked' = IF R.invoked THEN "recommendation_llm" ELSE "none"
          /\ gwRaised' = (R.invoked /\ raised)
          /\ gwReply' = IF R.invoked /\ ~raised THEN reply ELSE NoReply
          /\ ret' = R.ret
          /\ rendered' = IF Truthy(R.ret)
                         THEN display_outfit_recommendation(SB.wardrobe, R.ret.val)
                         ELSE <<>>
          /\ msgs' = SB.msgs \o R.msgs
                     \o (IF Truthy(R.ret) THEN <<>>
                         ELSE <<"Could not generate recommendations">>)
                     \o Tab3Msgs(SB.bot, SB.wardrobe)
    /\ argId' = NoId /\ escaped' = FALSE /\ itemId' = 0 /\ exported' = <<>>
    /\ UNCHANGED <<apiKey, uploaded, addRets, added, tpc, tdict>>

\* The script run of a press on "Export Wardrobe as JSON"; the button
\* exists only when the wardrobe tab lists items.
ClickExport ==
    /\ apiKey # "" /\ bot
    /\ LET SB == Sidebar(apiKey, bot, wardrobe, TRUE)
       IN /\ SB.bot /\ SB.wardrobe # <<>>
          /\ bot' = SB.bot
          /\ wardrobe' = SB.wardrobe
          /\ exported' = json_dumps(SB.wardrobe)
          /\ msgs' = SB.msgs \o Tab2Msgs(SB.bot, SB.wardrobe)
    /\ lastOp' = "export"
    /\ argId' = NoId /\ argNum' = 0
    /\ gwInvoked' = "none" /\ gwRaised' = FALSE /\ gwReply' = NoReply
    /\ escaped' = FALSE /\ ret' = None /\ itemId' = 0 /\ rendered' = <<>>
    /\ UNCHANGED <<apiKey, uploaded, addRets, added, tpc, tdict>>

\* ------------------------------------------------- calls of the bot's API
\* bot.get_outfit_recommendations(prefs, num) called on its own.
CallRecommend(num, raised, reply) ==
    /\ bot
    /\ LET R == get_outfit_recommendations(wardrobe, Preferences, num, raised, reply)
       IN /\ gwInvoked' = IF R.invoked THEN "recommendation_llm" ELSE "none"
          /\ gwRaised' = (R.invoked /\ raised)
          /\ gwReply' = IF R.invoked /\ ~raised THEN reply ELSE NoReply
          /\ ret' = R.ret
          /\ msgs' = R.msgs
    /\ lastOp' = "get_outfit_recommendations"
    /\ argNum' = num
    /\ argId' = NoId /\ escaped' = FALSE /\ itemId' = 0
    /\ rendered' = <<>> /\ exported' = <<>>
    /\ UNCHANGED <<apiKey, uploaded, bot, wardrobe, addRets, added, tpc, tdict>>

\* bot.get_item_by_id(item_id) called on its own.
CallGetItemById(item_id) ==
    /\ bot
    /\ ret' = get_item_by_id(wardrobe, item_id)
    /\ lastOp' = "get_item_by_id"
    /\ argId' = item_id
    /\ argNum' = 0
    /\ gwInvoked' = "none" /\ gwRaised' = FALSE /\ gwReply' = NoReply
    /\ escaped' = FALSE /\ itemId' = 0 /\ msgs' = <<>>
    /\ rendered' = <<>> /\ exported' = <<>>
    /\ UNCHANGED <<apiKey, uploaded, bot, wardrobe, addRets, added, tpc, tdict>>

Next ==
    \/ \E key \in ApiKeys, upl \in BOOLEAN, ctorOk \in BOOLEAN :
          Rerun(key, upl, ctorOk)
    \/ \E raised \in BOOLEAN, raw \in GatewayItemReplies :
          \E forder \in OrdersOf(ClothingItem(raw).features) :
             ClickAnalyze(raised, raw, forder)
    \/ \E raised \in BOOLEAN : \E reply \in RecOutcomes(raised) :
          ClickRecommend(raised, reply)
    \/ ClickExport
    \/ \E num \in {1, DefaultNumRecommendations}, raised \in BOOLEAN :
          \E reply \in RecOutcomes(raised) : CallRecommend(num, raised, reply)
    \/ \E item_id \in LookupInputs : CallGetItemById(item_id)

Spec == Init /\ [][Next]_vars


\* --------------------------------------------- concurrent add_to_wardrobe
\* The bot of one session shared by NumThreads threads, each analysing an
\* image and then adding the item.  add_to_wardrobe holds no lock, so another
\* thread can run between its read of len(self.wardrobe) and its append.
InitConc ==
    /\ apiKey = "key"
    /\ uploaded = TRUE
    /\ bot = TRUE
    /\ wardrobe = <<>>
    /\ lastOp = "start"
    /\ argId = NoId
    /\ argNum = 0
    /\ gwInvoked = "none"
    /\ gwRaised = FALSE
    /\ gwReply = NoReply
    /\ escaped = FALSE
    /\ ret = None
    /\ itemId = 0
    /\ msgs = <<>>
    /\ rendered = <<>>
    /\ exported = <<>>
    /\ addRets = <<>>
    /\ added = <<>>
    /\ tpc = [t \in Threads |-> "idle"]
    /\ tdict = [t \in Threads |-> <<>>]

InFlight == {t \in Threads : tpc[t] = "append"}

\* Thread t: analyze_clothing_image returns and, if it returned an item,
\* add_to_wardrobe runs up to and including line 82.
ThreadAnalyze(t, raised, raw, forder) ==
    /\ tpc[t] = "idle"
    /\ raised \/ Len(wardrobe) + Cardinality(InFlight) < MaxItems
    /\ LET A == analyze_clothing_image(raised, raw)
       IN /\ gwRaised' = raised
          /\ IF Truthy(A.ret)
             THEN /\ tdict' = [tdict EXCEPT ![t] = AddReadLen(wardrobe, A.ret.val, forder)]
                  /\ tpc' = [tpc EXCEPT ![t] = "append"]
                  /\ added' = Append(added, A.ret.val)
             ELSE UNCHANGED <<tdict, tpc, added>>
    /\ UNCHANGED <<apiKey, uploaded, bot, wardrobe, lastOp, argId, argNum,
                   gwInvoked, gwReply, escaped, ret, itemId, msgs, rendered,
                   exported, addRets>>

\* Thread t: lines 83-84 of add_to_wardrobe.
ThreadAppend(t) ==
    /\ tpc[t] = "append"
    /\ LET ADD == AddAppend(wardrobe, tdict[t])
       IN /\ wardrobe' = ADD.wardrobe
          /\ addRets' = Append(addRets, ADD.ret)
    /\ tpc' = [tpc EXCEPT ![t] = "idle"]
    /\ tdict' = [tdict EXCEPT ![t] = <<>>]
    /\ UNCHANGED <<apiKey, uploaded, bot, lastOp, argId, argNum, gwInvoked,
                   gwRaised, gwReply, escaped, ret, itemId, msgs, rendered,
                   exported, added>>

NextConc ==
    \/ \E t \in Threads, raised \in BOOLEAN, raw \in GatewayItemReplies :
          \E forder \in OrdersOf(ClothingItem(raw).features) :
             ThreadAnalyze(t, raised, raw, forder)
    \/ \E t \in Threads : ThreadAppend(t)

SpecConc == InitConc /\ [][NextConc]_vars


\* ================================================================== claims
\* The ids that are present in wardrobe w, as the texts a recommendation
\* uses for them.
IdTexts(w) == {IntToStr(w[i]["id"]) : i \in 1..Len(w)}

RecommendOps == {"recommend", "get_outfit_recommendations"}
ScriptRuns == {"rerun", "analyze", "recommend", "export"}

\* C1: the k-th add_to_wardrobe call returns id k, the ids of the stored
\* items read in list order are exactly 1..N, and each stored item's 'id' is
\* the value returned by the call that inserted it, whatever other
\* operations run in between.
C1_SequentialIds ==
    /\ Len(addRets) = Len(wardrobe)
    /\ \A k \in 1..Len(addRets) :
          /\ addRets[k] = k
          /\ wardrobe[k]["id"] = addRets[k]
    /\ (lastOp = "analyze" /\ itemId # 0) => itemId = Len(wardrobe)

C1_Witness ==
    /\ Len(wardrobe) = MaxItems
    /\ addRets[MaxItems] = MaxItems
    /\ lastOp = "get_item_by_id"

\* C2: get_item_by_id(x) returns the stored item whose id is k when x is the
\* int k and when x is the decimal text of k, for every assigned k; it
\* returns None for 0 and for every k beyond the size; and it leaves the
\* wardrobe as it was.
C2_LookupIntOrText ==
    [][lastOp' = "get_item_by_id" =>
         /\ wardrobe' = wardrobe
         /\ \A k \in 0..(MaxItems + 1) :
               (argId' = PyInt(k) \/ argId' = PyText(IntToStr(k))) =>
                  IF k \in 1..Len(wardrobe)
                  THEN /\ ret'.kind = "dict"
                       /\ ret'.val = wardrobe[k]
                       /\ ret'.val["id"] = k
                  ELSE ret'.kind = "None"]_vars

C2_Witness ==
    /\ lastOp = "get_item_by_id"
    /\ argId = PyText(IntToStr(2))
    /\ ret.kind = "dict"
    /\ Len(wardrobe) = MaxItems

\* C3: a recommendation asked of an empty wardrobe does not invoke the
\* Model Gateway, returns None, and leaves the wardrobe empty.
C3_EmptyNoGateway ==
    [][(lastOp' \in RecommendOps /\ wardrobe = <<>>) =>
         /\ gwInvoked' = "none"
         /\ ret'.kind = "None"
         /\ wardrobe' = <<>>
         /\ Len(wardrobe') = 0]_vars

C3_Witness ==
    /\ lastOp = "get_outfit_recommendations"
    /\ bot
    /\ wardrobe = <<>>
    /\ ret.kind = "None"
    /\ gwInvoked = "none"

\* C4: when the Model Gateway raises during analyze_clothing_image, no
\* exception leaves the call, the call returns None, and the script run
\* that made it adds nothing; every later successful analysis still stores
\* its item under id size + 1.
C4_AnalyzeFailureAddsNothing ==
    [][/\ (lastOp' = "analyze" /\ gwRaised') =>
             /\ escaped' = FALSE
             /\ ret'.kind = "None"
             /\ itemId' = 0
             /\ wardrobe' = wardrobe
             /\ addRets' = addRets
       /\ (lastOp' = "analyze" /\ ~gwRaised') =>
             /\ itemId' = Len(wardrobe) + 1
             /\ Len(wardrobe') = Len(wardrobe) + 1
             /\ wardrobe'[Len(wardrobe')]["id"] = itemId']_vars

C4_Witness ==
    /\ lastOp = "analyze"
    /\ gwRaised
    /\ ret.kind = "None"
    /\ Len(wardrobe) = 1
    /\ "Error analyzing image" \in Range(msgs)

\* C5: within a session every step either leaves the wardrobe exactly as it
\* was or, after a successful analysis, appends one item to it: no stored
\* item changes its position, its id or a field, and the list is never
\* replaced, shortened or reordered.
C5_AppendOnly ==
    [][\/ wardrobe' = wardrobe
       \/ /\ lastOp' = "analyze"
          /\ ~gwRaised'
          /\ ret'.kind = "ClothingItem"
          /\ Len(wardrobe') = Len(wardrobe) + 1
          /\ SubSeq(wardrobe', 1, Len(wardrobe)) = wardrobe]_vars

C5_Witness ==
    /\ lastOp = "rerun"
    /\ apiKey # ""
    /\ "Bot initialized!" \notin Range(msgs)
    /\ Len(wardrobe) = MaxItems

C7_AtMostMPresentIds ==
    (lastOp \in RecommendOps /\ ret.kind = "OutfitRecommendation") =>
        /\ Len(ret.val.recommended_items) <= argNum
        /\ Range(ret.val.recommended_items) \subseteq IdTexts(wardrobe)

\* C7 as amended: a successful recommendation is the Model Gateway's
\* structured reply, returned unchanged: the Gateway was invoked, and the
\* recommended_items are the ones it wrote, neither cut to m nor checked
\* against the wardrobe.
C7_ReplyReturnedUnchanged ==
    (lastOp \in RecommendOps /\ ret.kind = "OutfitRecommendation") =>
        /\ gwInvoked = "recommendation_llm"
        /\ wardrobe # <<>>
        /\ ret.val = gwReply

C7_Witness ==
    /\ lastOp = "get_outfit_recommendations"
    /\ argNum = 1
    /\ Len(wardrobe) = 2
    /\ ret.kind = "OutfitRecommendation"
    /\ Len(ret.val.recommended_items) > argNum
    /\ ~(Range(ret.val.recommended_items) \subseteq IdTexts(wardrobe))

\* C8: rendering a recommendation writes one expander for every
\* recommended_items entry whose id is in the wardrobe, in the order of
\* recommended_items, nothing for an entry whose id is not, and then the
\* reasoning and the style tips; no exception arises and the wardrobe is
\* left as it was.
C8_RenderSkipsAbsent ==
    [][(lastOp' = "recommend" /\ ret'.kind = "OutfitRecommendation") =>
         LET rec == ret'.val
             Present(e) == e \in IdTexts(wardrobe)
             shown == SelectSeq(rec.recommended_items, Present)
             ItemOf(e) == wardrobe[CHOOSE i \in 1..Len(wardrobe) :
                                      IntToStr(wardrobe[i]["id"]) = e]
             n == Len(shown)
             tips == Len(rec.style_tips)
         IN /\ wardrobe' = wardrobe
            /\ escaped' = FALSE
            /\ Len(rendered') = 2 + n + 2 + (IF tips = 0 THEN 0 ELSE tips + 1)
            /\ \A j \in 1..n :
                  /\ rendered'[2 + j].widget = "expander"
                  /\ rendered'[2 + j].ref = shown[j]
                  /\ rendered'[2 + j] = Expander(shown[j], ItemOf(shown[j]))
            /\ rendered'[2 + n + 2] = Write(rec.reasoning)
            /\ \A j \in 1..tips :
                  rendered'[2 + n + 3 + j] = Write(rec.style_tips[j])
            /\ \A j \in 1..Len(rendered') :
                  rendered'[j].widget = "expander" => j \in 3..(2 + n)]_vars

C8_Witness ==
    /\ lastOp = "recommend"
    /\ ret.kind = "OutfitRecommendation"
    /\ ret.val.recommended_items = <<Id1, IdAbsent, Id2, Id1>>
    /\ ret.val.style_tips # <<>>
    /\ Len(wardrobe) = 2
    /\ Len(rendered) = 10

\* C9: the exported text, parsed again, is a list with one item per add, in
\* the order of the adds; each parsed item has the id its add returned, the
\* scalar fields and the color, occasion and season sequences of the added
\* ClothingItem, and features with exactly the elements of its feature set,
\* each once.
C9_ExportRoundTrip ==
    lastOp = "export" =>
        LET parsed == json_loads(exported)
        IN /\ Len(parsed) = Len(added)
           /\ \A i \in 1..Len(added) :
                 /\ DOMAIN parsed[i] = Range(DictKeyOrder)
                 /\ parsed[i]["id"] = addRets[i]
                 /\ \A f \in ScalarFields : parsed[i][f] = added[i][f]
                 /\ \A f \in ListFields \ {"features"} :
                       parsed[i][f] = added[i][f]
                 /\ Range(parsed[i]["features"]) = added[i]["features"]
                 /\ Len(parsed[i]["features"]) = Cardinality(added[i]["features"])

C9_Witness ==
    /\ lastOp = "export"
    /\ Len(added) = MaxItems
    /\ \E i, j \in 1..Len(wardrobe) :
          /\ Cardinality(added[i]["features"]) = 2
          /\ added[j] = added[i]
          /\ wardrobe[i]["features"] # wardrobe[j]["features"]
    /\ Len(exported) > 2

\* What get_outfit_recommendations returns for the empty wardrobe.
EmptyWardrobeResult ==
    get_outfit_recommendations(<<>>, Preferences, DefaultNumRecommendations,
                               FALSE, NoReply).ret

SameValue(a, b) == a.kind = b.kind /\ (a.kind = "None" \/ a.val = b.val)

\* C10 as stated: the value returned when the Model Gateway fails on a
\* non-empty wardrobe is never the value returned for the empty wardrobe.
C10_DistinctReturnValues ==
    (lastOp \in RecommendOps /\ gwRaised) =>
        ~SameValue(ret, EmptyWardrobeResult)

\* C10 as amended: both cases return None, and they are told apart by what
\* is shown.  The call on an empty wardrobe shows nothing and asks nothing
\* of the Gateway; the call the Gateway fails shows "Error getting
\* recommendations".  A script run that finds nothing to recommend from
\* shows "Please add some clothing items first" and makes no call, so it
\* never shows "Could not generate recommendations"; the run in which the
\* Gateway fails shows that error and not the warning.
C10_SameValueDistinctMessages ==
    /\ (lastOp = "get_outfit_recommendations" /\ wardrobe = <<>>) =>
          /\ ret.kind = "None"
          /\ gwInvoked = "none"
          /\ msgs = <<>>
    /\ (lastOp \in RecommendOps /\ gwRaised) =>
          /\ wardrobe # <<>>
          /\ ret.kind = "None"
          /\ SameValue(ret, EmptyWardrobeResult)
          /\ "Error getting recommendations" \in Range(msgs)
    /\ (lastOp = "recommend" /\ gwRaised) =>
          /\ "Could not generate recommendations" \in Range(msgs)
          /\ "Please add some clothing items first" \notin Range(msgs)
    /\ (lastOp \in ScriptRuns /\ apiKey # "" /\ (~bot \/ wardrobe = <<>>)) =>
          /\ lastOp # "recommend"
          /\ "Please add some clothing items first" \in Range(msgs)
          /\ "Could not generate recommendations" \notin Range(msgs)
          /\ "Error getting recommendations" \notin Range(msgs)

C10_Witness ==
    /\ lastOp = "recommend"
    /\ gwRaised
    /\ ret.kind = "None"
    /\ wardrobe # <<>>
    /\ "Could not generate recommendations" \in Range(msgs)

====
